---- MODULE Spec2Model ----
(***************************************************************************)
(* Lead KPI calculation script (src/Lead_KPI_Automation_V1.py) as a state  *)
(* machine: one run of the script is a walk of pc through its numbered     *)
(* sections, over the three source sheets and the report tab.              *)
(*                                                                         *)
(* Text is a sequence of one-character strings, so that the normalisers    *)
(* act on characters as the Python string methods do.  Real numbers are    *)
(* fixed point and exact: metrics and weights in thousandths, sub-scores   *)
(* in millionths, percentages and the final score in hundredths.  A float  *)
(* that may be NaN or infinite is a record [k, v].                         *)
(***************************************************************************)
EXTENDS Integers, Sequences, FiniteSets, TLC

\* ------------------------------------------------------------------------
\* Bounds of the model
\* ------------------------------------------------------------------------
\* Longest raw ID the edits of SpecId build, and longest raw ID they start from.
MaxIdLen == 4
BaseIdLen == 3
\* Most data rows of the Lead tab.
MaxLead == 2
\* Most rows of a Lead_With_Hours table given to the contribution steps.
MaxHoursRows == 3
\* Most runs of the script in one behaviour.
MaxRuns == 2
\* Range of the percentages (in hundredths) given to the rating step.
MaxPct == 2100

VARIABLES
    \* --- the script's position and its environment
    pc,                 \* section of the script the run is at
    env,                \* SHEET_ID_LEAD, SHEET_ID_PDR, SHEET_ID_REPORT
    leadSheet,          \* data rows of tab "Lead" (B:J), header present
    pdrSheet,           \* records of tab "Project_Hours"
    attSheet,           \* records of tab "Attendance": [cols, rows]
    tab,                \* tab "Final Report_Lead": Absent or its rows
    logs,               \* Excel log files written, by run
    runs,               \* runs started before this one
    \* --- the script's data frames
    lead_df, pdr_df, attendance_df,
    monthly_core, project_count, lead_with_hours, lead_contrib,
    attendance_agg, merged, final_report,
    \* --- history
    tab0,               \* the report tab before the first run
    sourcesRead,        \* a source sheet has been read
    firstTab,           \* the tab as the first completed run left it
    \* --- SpecId: two spellings of one raw ID
    rawId, curId, tabEdit, idPhase, keyRaw, keyCur

frames == <<lead_df, pdr_df, attendance_df, monthly_core, project_count,
            lead_with_hours, lead_contrib, attendance_agg, merged, final_report>>
world == <<env, leadSheet, pdrSheet, attSheet, tab0>>
pipeVars == <<pc, world, tab, logs, runs, frames, sourcesRead, firstTab>>
idVars == <<rawId, curId, tabEdit, idPhase, keyRaw, keyCur>>
vars == <<pipeVars, idVars>>

\* ------------------------------------------------------------------------
\* Generic helpers
\* ------------------------------------------------------------------------
\* Python's None / NaN in a text column: a value no text equals (text is a
\* sequence of one-character strings).
None == <<"None">>

SeqsUpTo(S, n) == UNION {[1..k -> S] : k \in 0..n}

RECURSIVE SumSeq(_)
SumSeq(s) == IF s = <<>> THEN 0 ELSE Head(s) + SumSeq(Tail(s))

RECURSIVE Flatten(_)
Flatten(ss) == IF ss = <<>> THEN <<>> ELSE Head(ss) \o Flatten(Tail(ss))

Abs(x) == IF x < 0 THEN -x ELSE x

Range(s) == {s[i] : i \in 1..Len(s)}

\* Column c of a table, as a sequence.
Col(t, c) == [i \in 1..Len(t) |-> t[i][c]]

\* ------------------------------------------------------------------------
\* Floats that may be NaN or infinite
\* ------------------------------------------------------------------------
Num(v) == [k |-> "num", v |-> v]
NaN == [k |-> "nan", v |-> 0]
PosInf == [k |-> "inf", v |-> 0]
NegInf == [k |-> "-inf", v |-> 0]
\* A cell pd.to_numeric cannot parse, and a cell that is missing.
Unparsable == [k |-> "text", v |-> 0]
Missing == [k |-> "none", v |-> 0]

IsFinite(x) == x.k = "num"

\* def to_num(s): pd.to_numeric(s, errors="coerce")
to_num(x) == IF x.k \in {"num", "inf", "-inf"} THEN x ELSE NaN

\* Series.fillna(d): NaN and None are filled, infinities are not.
fillna(x, d) == IF x.k \in {"nan", "none"} THEN Num(d) ELSE x

\* x >= n for a float x and an integer n, as IEEE 754 compares.
GreaterEq(x, n) ==
    CASE x.k = "num" -> x.v >= n
      [] x.k = "inf" -> TRUE
      [] OTHER -> FALSE

\* n / d rounded to the nearest integer, ties to the even one (numpy's
\* round), d # 0.
RoundDiv(n, d) ==
    LET nn == IF d < 0 THEN -n ELSE n
        dd == Abs(d)
        q == nn \div dd
        r == nn - q * dd
    IN  IF 2 * r < dd THEN q
        ELSE IF 2 * r > dd THEN q + 1
        ELSE IF q % 2 = 0 THEN q ELSE q + 1

\* Series.mean() of finite values (thousandths, truncated).
Mean(s) == SumSeq(s) \div Len(s)

\* ------------------------------------------------------------------------
\* Characters: str.upper, str.lower, str.strip, string order
\* ------------------------------------------------------------------------
LowerLetters == <<"a","b","c","d","e","f","g","h","i","j","k","l","m",
                  "n","o","p","q","r","s","t","u","v","w","x","y","z">>
UpperLetters == <<"A","B","C","D","E","F","G","H","I","J","K","L","M",
                  "N","O","P","Q","R","S","T","U","V","W","X","Y","Z">>

IsLower(c) == \E i \in 1..Len(LowerLetters) : LowerLetters[i] = c
IsUpper(c) == \E i \in 1..Len(UpperLetters) : UpperLetters[i] = c
IndexIn(letters, c) == CHOOSE i \in 1..Len(letters) : letters[i] = c

UpperChar(c) == IF IsLower(c) THEN UpperLetters[IndexIn(LowerLetters, c)] ELSE c
LowerChar(c) == IF IsUpper(c) THEN LowerLetters[IndexIn(UpperLetters, c)] ELSE c

\* str.upper() / str.lower()
StrUpper(s) == [i \in 1..Len(s) |-> UpperChar(s[i])]
StrLower(s) == [i \in 1..Len(s) |-> LowerChar(s[i])]

\* str.capitalize()
StrCapitalize(s) ==
    [i \in 1..Len(s) |-> IF i = 1 THEN UpperChar(s[i]) ELSE LowerChar(s[i])]

\* The characters str.strip() removes (those of the model's alphabet).
Whitespace == {" ", "\t"}

RECURSIVE LStrip(_)
LStrip(s) == IF s # <<>> /\ Head(s) \in Whitespace THEN LStrip(Tail(s)) ELSE s

RECURSIVE RStrip(_)
RStrip(s) ==
    IF s # <<>> /\ s[Len(s)] \in Whitespace
    THEN RStrip(SubSeq(s, 1, Len(s) - 1)) ELSE s

\* str.strip()
StrStrip(s) == RStrip(LStrip(s))

\* str.startswith(p)
StartsWith(s, p) == Len(s) >= Len(p) /\ SubSeq(s, 1, Len(p)) = p

\* The model's characters in code point order.
CodeOrder == <<"\t", " ", ",", "-">>
             \o <<"0","1","2","3","4","5","6","7","8","9">>
             \o UpperLetters \o <<"_">> \o LowerLetters
Ord(c) == CHOOSE i \in 1..Len(CodeOrder) : CodeOrder[i] = c

\* a < b for Python strings
RECURSIVE TextLess(_, _)
TextLess(a, b) ==
    IF b = <<>> THEN FALSE
    ELSE IF a = <<>> THEN TRUE
    ELSE IF Head(a) = Head(b) THEN TextLess(Tail(a), Tail(b))
    ELSE Ord(Head(a)) < Ord(Head(b))

\* sorted(S) for a finite set S of strings
SortedSeq(S) ==
    [i \in 1..Cardinality(S) |->
        CHOOSE x \in S : Cardinality({y \in S : TextLess(y, x)}) = i - 1]

\* ", ".join(names)
RECURSIVE JoinComma(_)
JoinComma(names) ==
    IF names = <<>> THEN <<>>
    ELSE IF Len(names) = 1 THEN names[1]
    ELSE names[1] \o <<",", " ">> \o JoinComma(Tail(names))

\* str.replace(" ", "_"): only the space character is replaced.
ReplaceSpace(s) == [i \in 1..Len(s) |-> IF s[i] = " " THEN "_" ELSE s[i]]

\* re.sub(r"_+", "_", x)
RECURSIVE CollapseUnderscores(_)
CollapseUnderscores(s) ==
    IF Len(s) < 2 THEN s
    ELSE IF s[1] = "_" /\ s[2] = "_" THEN CollapseUnderscores(Tail(s))
    ELSE <<Head(s)>> \o CollapseUnderscores(Tail(s))

\* A mutant of clean_qai_id that leaves underscore runs as they are.
clean_qai_id_NoCollapse(x) ==
    IF x = None THEN None ELSE ReplaceSpace(StrStrip(StrUpper(x)))

\* def clean_qai_id(x)
clean_qai_id(x) ==
    IF x = None THEN None
    ELSE CollapseUnderscores(ReplaceSpace(StrStrip(StrUpper(x))))

\* The months table of normalize_month, in the dict's order.
months == <<
    <<<<"j","a","n">>, <<"J","a","n","u","a","r","y">>>>,
    <<<<"f","e","b">>, <<"F","e","b","r","u","a","r","y">>>>,
    <<<<"m","a","r">>, <<"M","a","r","c","h">>>>,
    <<<<"a","p","r">>, <<"A","p","r","i","l">>>>,
    <<<<"m","a","y">>, <<"M","a","y">>>>,
    <<<<"j","u","n">>, <<"J","u","n","e">>>>,
    <<<<"j","u","l">>, <<"J","u","l","y">>>>,
    <<<<"a","u","g">>, <<"A","u","g","u","s","t">>>>,
    <<<<"s","e","p">>, <<"S","e","p","t","e","m","b","e","r">>>>,
    <<<<"o","c","t">>, <<"O","c","t","o","b","e","r">>>>,
    <<<<"n","o","v">>, <<"N","o","v","e","m","b","e","r">>>>,
    <<<<"d","e","c">>, <<"D","e","c","e","m","b","e","r">>>> >>

\* def normalize_month(value)
normalize_month(value) ==
    IF value = None THEN None
    ELSE LET v == StrLower(StrStrip(value))
             hits == {i \in 1..Len(months) : StartsWith(v, months[i][1])}
         IN  IF hits # {}
             THEN months[CHOOSE i \in hits : \A j \in hits : i <= j][2]
             ELSE StrCapitalize(v)

\* ------------------------------------------------------------------------
\* Data frames: a table is a sequence of records, a frame read with
\* get_all_records is [cols, rows] because it may have no columns at all.
\* ------------------------------------------------------------------------
NoFrame == <<>>
EmptyRecords == [cols |-> {}, rows |-> <<>>]

\* DataFrame.rename(columns={old: new}) on one row
RenameCol(r, old, new) ==
    IF old \notin DOMAIN r THEN r
    ELSE [f \in (DOMAIN r \ {old}) \cup {new} |-> IF f = new THEN r[old] ELSE r[f]]

\* df[c] = v on one row
SetCol(r, c, v) == [f \in DOMAIN r \cup {c} |-> IF f = c THEN v ELSE r[f]]

\* to_num(x).fillna(0) of a finite or unparsable cell, as a number
NumOr0(x) == fillna(to_num(x), 0).v

\* left.merge(right, how="left"): every left row, once per matching right
\* row in the right table's order, or once with the right columns NaN.
LeftJoin(left, right, on, nanRow) ==
    Flatten([i \in 1..Len(left) |->
        LET ms == SelectSeq(right, LAMBDA r : \A c \in on : left[i][c] = r[c])
        IN  IF ms = <<>> THEN <<left[i] @@ nanRow>>
            ELSE [j \in 1..Len(ms) |-> left[i] @@ ms[j]]])

\* on=["Month", "QAI_ID"]
SameKey == {"Month", "QAI_ID"}

\* groupby(["Month", "QAI_ID"]): the keys of the rows whose key has no
\* null part (dropna), sorted.
KeyLess(a, b) ==
    \/ TextLess(a[1], b[1])
    \/ a[1] = b[1] /\ TextLess(a[2], b[2])

GroupKeys(t) ==
    LET S == {<<t[i].Month, t[i].QAI_ID>> : i \in
                 {j \in 1..Len(t) : t[j].Month # None /\ t[j].QAI_ID # None}}
    IN  [i \in 1..Cardinality(S) |->
            CHOOSE x \in S : Cardinality({y \in S : KeyLess(y, x)}) = i - 1]

GroupRows(t, key) == SelectSeq(t, LAMBDA r : r.Month = key[1] /\ r.QAI_ID = key[2])

\* Series.dropna() of a text column
DropNone(s) == SelectSeq(s, LAMBDA x : x # None)

\* ==== 5) Normalize/rename columns ==== (pdr_df.rename)
RenamePdr(df) ==
    [cols |-> {IF c = "Project_Batch" THEN "Project_name"
               ELSE IF c = "SUM_of_Effective_Work_Hour" THEN "Project_Hour"
               ELSE c : c \in df.cols},
     rows |-> [i \in 1..Len(df.rows) |->
                 RenameCol(RenameCol(df.rows[i], "Project_Batch", "Project_name"),
                           "SUM_of_Effective_Work_Hour", "Project_Hour")]]

\* Attendance sheet: ID -> QAI_ID when there is no QAI_ID column
RenameAttendance(df) ==
    IF "QAI_ID" \notin df.cols /\ "ID" \in df.cols
    THEN [cols |-> (df.cols \ {"ID"}) \cup {"QAI_ID"},
          rows |-> [i \in 1..Len(df.rows) |-> RenameCol(df.rows[i], "ID", "QAI_ID")]]
    ELSE df

\* ---- Attendance numeric handling ----
AttendanceScores(df) ==
    LET score(r) ==
            IF "Attendance_Score" \in df.cols THEN NumOr0(r.Attendance_Score)
            ELSE IF "Score" \in df.cols THEN NumOr0(r.Score)
            ELSE 0
        training(r) ==
            IF "Training" \in df.cols THEN NumOr0(r.Training) ELSE 0
        fix(r) ==
            LET a == IF "Attendance_Score" \in df.cols
                     THEN SetCol(r, "Attendance_Score", score(r)) ELSE r
            IN  SetCol(SetCol(a, "Score", score(r)), "Training", training(r))
    IN  [cols |-> df.cols \cup {"Score", "Training"},
         rows |-> [i \in 1..Len(df.rows) |-> fix(df.rows[i])]]

\* ==== 6) Ensure numeric columns in Lead + PDR ====
lead_num_cols == <<"Quality", "Timeliness", "Documentation", "Communication",
                   "Discipline">>

CoerceLead(t) ==
    [i \in 1..Len(t) |->
        [f \in DOMAIN t[i] |->
            IF f \in Range(lead_num_cols) THEN NumOr0(t[i][f]) ELSE t[i][f]]]

\* pdr_df.get(c, 0) is the scalar 0 when the column is absent, and
\* to_num(0).fillna raises AttributeError.
CoercePdrRaises(df) == "Project_Hour" \notin df.cols \/ "PDR" \notin df.cols

CoercePdr(df) ==
    [cols |-> df.cols,
     rows |-> [i \in 1..Len(df.rows) |->
                 SetCol(SetCol(df.rows[i], "Project_Hour", NumOr0(df.rows[i].Project_Hour)),
                        "PDR", NumOr0(df.rows[i].PDR))]]

\* ==== 7) Clean IDs and Months ====
CleanLead(t) ==
    [i \in 1..Len(t) |->
        SetCol(SetCol(t[i], "QAI_ID", clean_qai_id(t[i].QAI_ID)),
               "Month", normalize_month(t[i].Month))]

\* attendance_df["Month"] raises KeyError when the frame has no such column.
CleanAttendanceRaises(df) == "Month" \notin df.cols

CleanAttendance(df) ==
    [cols |-> df.cols,
     rows |-> [i \in 1..Len(df.rows) |->
        LET r == df.rows[i]
            a == IF "QAI_ID" \in df.cols
                 THEN SetCol(r, "QAI_ID", clean_qai_id(r.QAI_ID)) ELSE r
        IN  SetCol(a, "Month", normalize_month(a.Month))]]

\* ==== 8) Monthly KPI Averages ====
\* "Lead": "first" is the first non-null value of the group.
FirstOf(s) == IF DropNone(s) = <<>> THEN None ELSE Head(DropNone(s))

\* ", ".join(sorted(set(pd.Series(x).dropna())))
ProjectNames(s) == JoinComma(SortedSeq(Range(DropNone(s))))

MonthlyCore(t) ==
    LET keys == GroupKeys(t)
    IN  [i \in 1..Len(keys) |->
            LET g == GroupRows(t, keys[i])
            IN  [Month |-> keys[i][1], QAI_ID |-> keys[i][2],
                 Quality |-> Mean(Col(g, "Quality")),
                 Timeliness |-> Mean(Col(g, "Timeliness")),
                 Documentation |-> Mean(Col(g, "Documentation")),
                 Communication |-> Mean(Col(g, "Communication")),
                 Discipline |-> Mean(Col(g, "Discipline")),
                 Lead |-> FirstOf(Col(g, "Lead")),
                 Project_name |-> ProjectNames(Col(g, "Project_name"))]]

\* ==== 8b) Calculate Project Count per Month per QAI_ID ====
ProjectCount(t) ==
    LET keys == GroupKeys(t)
    IN  [i \in 1..Len(keys) |->
            [Month |-> keys[i][1], QAI_ID |-> keys[i][2],
             Project_Count |->
                Cardinality(Range(DropNone(Col(GroupRows(t, keys[i]), "Project_name"))))]]

\* ==== 9-13) Contributions and Attendance Merge ====
\* A mutant of LeadWithHours that merges on the first matching project row only.
LeadWithHours_FirstMatch(lead, pdr) ==
    [i \in 1..Len(lead) |->
        LET ms == SelectSeq(pdr.rows, LAMBDA p : p.Project_name = lead[i].Project_name)
            p == IF ms = <<>> THEN 0 ELSE ms[1].PDR
            h == IF ms = <<>> THEN 0 ELSE ms[1].Project_Hour
        IN  lead[i] @@ [PDR |-> p, Project_Hour |-> h, Weighted_Contribution |-> p * h]]

\* lead_df.merge(pdr_df[["Project name", "PDR", "Project Hour"]],
\*               on="Project name", how="left"), zero fill, PDR * Project Hour
LeadWithHours(lead, pdr) ==
    LET right == [i \in 1..Len(pdr.rows) |->
                    [Project_name |-> pdr.rows[i].Project_name,
                     PDR |-> Num(pdr.rows[i].PDR),
                     Project_Hour |-> Num(pdr.rows[i].Project_Hour)]]
        joined == LeftJoin(lead, right, {"Project_name"},
                           [PDR |-> NaN, Project_Hour |-> NaN])
    IN  [i \in 1..Len(joined) |->
            LET p == NumOr0(joined[i].PDR)
                h == NumOr0(joined[i].Project_Hour)
            IN  [f \in DOMAIN joined[i] \cup {"Weighted_Contribution"} |->
                    CASE f = "PDR" -> p
                      [] f = "Project_Hour" -> h
                      [] f = "Weighted_Contribution" -> p * h
                      [] OTHER -> joined[i][f]]]

\* lead_with_hours.groupby(["Month", "QAI_ID"]).agg(sum)
GroupContribution(lwh) ==
    LET keys == GroupKeys(lwh)
    IN  [i \in 1..Len(keys) |->
            [Month |-> keys[i][1], QAI_ID |-> keys[i][2],
             Lead_Contribution |->
                SumSeq(Col(GroupRows(lwh, keys[i]), "Weighted_Contribution"))]]

\* A mutant of MonthTotal: the total over every month.
MonthTotal_AllMonths(lc, month) == SumSeq(Col(lc, "Lead_Contribution"))

\* total_contrib: lead_contrib.groupby("Month").agg(sum), for one month
MonthTotal(lc, month) ==
    SumSeq(Col(SelectSeq(lc, LAMBDA r : r.Month = month), "Lead_Contribution"))

\* lead_contrib.merge(total_contrib, on="Month", how="left")
WithMonthTotal(lc) ==
    [i \in 1..Len(lc) |->
        lc[i] @@ [Total_Month_Contribution |-> MonthTotal(lc, lc[i].Month)]]

\* a / b * 100 rounded to 2 decimals, in hundredths; x / 0 is NaN for
\* x = 0 and an infinity of x's sign otherwise.
PercentOf(a, b) ==
    IF b # 0 THEN Num(RoundDiv(a * 10000, b))
    ELSE IF a = 0 THEN NaN
    ELSE IF a > 0 THEN PosInf ELSE NegInf

\* ((Lead_Contribution / Total_Month_Contribution) * 100).round(2).fillna(0)
WithPercent(lc) ==
    [i \in 1..Len(lc) |->
        lc[i] @@ [Contribution_pct |->
            fillna(PercentOf(lc[i].Lead_Contribution, lc[i].Total_Month_Contribution), 0)]]

\* A mutant of contribution_to_rating with strict lower bounds.
contribution_to_rating_Strict(pct) ==
    IF pct.k = "inf" \/ (pct.k = "num" /\ pct.v > 2000) THEN 5
    ELSE IF pct.k = "num" /\ pct.v > 1600 THEN 4
    ELSE IF pct.k = "num" /\ pct.v > 1100 THEN 3
    ELSE IF pct.k = "num" /\ pct.v > 500 THEN 2
    ELSE 1

\* def contribution_to_rating(pct), pct in hundredths of a percent
contribution_to_rating(pct) ==
    IF GreaterEq(pct, 2000) THEN 5
    ELSE IF GreaterEq(pct, 1600) THEN 4
    ELSE IF GreaterEq(pct, 1100) THEN 3
    ELSE IF GreaterEq(pct, 500) THEN 2
    ELSE 1

\* lead_contrib["Contribution_%"].apply(contribution_to_rating)
WithRating(lc) ==
    [i \in 1..Len(lc) |->
        lc[i] @@ [Contribution_Rating |-> contribution_to_rating(lc[i].Contribution_pct)]]

\* attendance_df.groupby(["Month", "QAI_ID"]) raises KeyError without QAI_ID.
AttendanceAggRaises(df) == "QAI_ID" \notin df.cols

AttendanceAgg(df) ==
    LET keys == GroupKeys(df.rows)
    IN  [i \in 1..Len(keys) |->
            LET g == GroupRows(df.rows, keys[i])
            IN  [Month |-> keys[i][1], QAI_ID |-> keys[i][2],
                 Attendance |-> Mean(Col(g, "Score")),
                 Training |-> Mean(Col(g, "Training"))]]

\* merged = monthly_core.merge(lead_contrib).merge(attendance_agg)
\*                      .merge(project_count), each how="left"
NumCols(r, cs) == [f \in DOMAIN r |-> IF f \in cs THEN Num(r[f]) ELSE r[f]]

JoinAll(core, lc, agg, pcount) ==
    LET lcV == [i \in 1..Len(lc) |->
                  NumCols(lc[i], {"Lead_Contribution", "Total_Month_Contribution",
                                  "Contribution_Rating"})]
        aggV == [i \in 1..Len(agg) |-> NumCols(agg[i], {"Attendance", "Training"})]
        pcV == [i \in 1..Len(pcount) |-> NumCols(pcount[i], {"Project_Count"})]
        m1 == LeftJoin(core, lcV, SameKey,
                       [Lead_Contribution |-> NaN, Total_Month_Contribution |-> NaN,
                        Contribution_pct |-> NaN, Contribution_Rating |-> NaN])
        m2 == LeftJoin(m1, aggV, SameKey, [Attendance |-> NaN, Training |-> NaN])
    IN  LeftJoin(m2, pcV, SameKey, [Project_Count |-> NaN])

\* for c in [...]: if c not in merged.columns: merged[c] = 0
\*                 merged[c] = to_num(merged[c]).fillna(0)
ZeroFill(m) ==
    [i \in 1..Len(m) |->
        LET cell(c) == IF c \in DOMAIN m[i] THEN m[i][c] ELSE Num(0)
        IN  [f \in DOMAIN m[i] \cup {"Contribution_pct", "Contribution_Rating",
                                     "Attendance", "Training"} |->
                CASE f = "Contribution_pct" -> fillna(to_num(cell(f)), 0)
                  [] f \in {"Contribution_Rating", "Attendance", "Training"}
                        -> NumOr0(cell(f))
                  [] OTHER -> m[i][f]]]

\* A mutant of Merged that joins attendance_agg with how="inner".
Merged_InnerAttendance(core, lc, agg, pcount) ==
    ZeroFill(JoinAll(SelectSeq(core, LAMBDA c : \E a \in Range(agg) : \A k \in SameKey : c[k] = a[k]),
                     lc, agg, pcount))

Merged(core, lc, agg, pcount) == ZeroFill(JoinAll(core, lc, agg, pcount))

\* ==== 14) Weighted Scoring ==== (sub-scores in millionths)
Score_Quality(r) == 200 * r.Quality
Score_Timeliness(r) == 100 * r.Timeliness
Score_Documentation(r) == 100 * r.Documentation
Score_Communication(r) == 100 * r.Communication

\* A mutant of Score_Discipline with the weight 0.10.
Score_Discipline_Tenth(r) == 100 * r.Discipline

Score_Discipline(r) == 75 * r.Discipline
Score_Contribution(r) == 150 * (1000 * r.Contribution_Rating)
Score_Attendance(r) == 75 * r.Attendance
Score_Training(r) == 200 * r.Training

\* The sum of the eight sub-scores, .round(2): hundredths
FinalKpiScore(r) ==
    RoundDiv(Score_Quality(r) + Score_Timeliness(r) + Score_Documentation(r)
             + Score_Communication(r) + Score_Discipline(r) + Score_Contribution(r)
             + Score_Attendance(r) + Score_Training(r), 10000)

Scored(m) ==
    [i \in 1..Len(m) |->
        m[i] @@ [Score_Quality |-> Score_Quality(m[i]),
                 Score_Timeliness |-> Score_Timeliness(m[i]),
                 Score_Documentation |-> Score_Documentation(m[i]),
                 Score_Communication |-> Score_Communication(m[i]),
                 Score_Discipline |-> Score_Discipline(m[i]),
                 Score_Contribution |-> Score_Contribution(m[i]),
                 Score_Attendance |-> Score_Attendance(m[i]),
                 Score_Training |-> Score_Training(m[i]),
                 Final_KPI_Score |-> FinalKpiScore(m[i])]]

\* ==== 15) Final Report ====
\* A cell of the uploaded table is a string: a text, or the decimal text of
\* a number.
TextCell(s) == [kind |-> "text", txt |-> s, num |-> 0]
NumCell(n) == [kind |-> "num", txt |-> <<>>, num |-> n]

\* def clean_for_gsheet(df), on one cell: a text, None, a number or a float
\* that may be NaN or infinite
clean_text(s) == IF s = None THEN TextCell(<<>>) ELSE TextCell(s)
clean_num(n) == NumCell(n)
clean_float(x) == IF IsFinite(x) THEN NumCell(x.v) ELSE TextCell(<<>>)

final_report_columns == <<
    TextCell(<<"Month">>),
    TextCell(<<"QAI_ID">>),
    TextCell(<<"Lead">>),
    TextCell(<<"Project Name">>),
    TextCell(<<"Project Count">>),
    TextCell(<<"Quality Score (RCA) (Out of 1.00 | Weight: 20%)">>),
    TextCell(<<"Project Delivery Timeliness (Out of 0.50 | Weight: 10%)">>),
    TextCell(<<"Documentation & Reporting (Out of 0.50 | Weight: 10%)">>),
    TextCell(<<"Communication Efficiency (Out of 0.50 | Weight: 10%)">>),
    TextCell(<<"Discipline & Punctuality (Out of 0.375 | Weight: 7.5%)">>),
    TextCell(<<"Contribution Rating (Out of 0.75 | Weight: 15%)">>),
    TextCell(<<"Attendance (Out of 0.375 | Weight: 7.5%)">>),
    TextCell(<<"Training & Assessment Performance (Out of 1.00 | Weight: 20%)">>),
    TextCell(<<"Final KPI Score (Weighted Total Out of 5.00)">>) >>

FinalReport(m) ==
    [i \in 1..Len(m) |->
        <<clean_text(m[i].Month), clean_text(m[i].QAI_ID), clean_text(m[i].Lead),
          clean_text(m[i].Project_name), clean_float(m[i].Project_Count),
          clean_num(m[i].Score_Quality), clean_num(m[i].Score_Timeliness),
          clean_num(m[i].Score_Documentation), clean_num(m[i].Score_Communication),
          clean_num(m[i].Score_Discipline), clean_num(m[i].Score_Contribution),
          clean_num(m[i].Score_Attendance), clean_num(m[i].Score_Training),
          clean_num(m[i].Final_KPI_Score)>>]

\* ==== 16) Upload to Google Sheets ====
Absent == [exists |-> FALSE, rows |-> <<>>]

\* ws.update(values): the values overwrite the grid from A1, cells beyond
\* them keep what they hold.
UpdateGrid(grid, values) ==
    [exists |-> TRUE,
     rows |-> values \o SubSeq(grid.rows, Len(values) + 1, Len(grid.rows))]

\* A mutant of Uploaded that reuses the existing tab instead of deleting it.
Uploaded_Reuse(old, report) == UpdateGrid(old, <<final_report_columns>> \o report)

\* try: del_worksheet(worksheet("Final Report_Lead")) except: pass
\* add_worksheet(...); update([columns] + values)
Uploaded(old, report) ==
    LET deleted == IF old.exists THEN Absent ELSE old
        added == [exists |-> TRUE, rows |-> deleted.rows]
    IN  UpdateGrid(added, <<final_report_columns>> \o report)

\* ------------------------------------------------------------------------
\* Inputs: what the sheets and the environment may hold
\* ------------------------------------------------------------------------
SheetId == <<"i", "d">>
\* os.getenv gives None for an unset variable, "" for an empty one.
EnvValues == {None, <<>>, SheetId}
Envs == [SHEET_ID_LEAD : EnvValues, SHEET_ID_PDR : EnvValues,
         SHEET_ID_REPORT : EnvValues]

P1 == <<"P", "1">>
P2 == <<"P", "2">>
P3 == <<"P", "3">>

\* Rows of the Lead tab: Q 1 under two spellings, Q2 in two months, a row
\* with no ID, a project (P3) that Project_Hours never lists.
LeadRows == {
    [Month |-> <<"j","a","n">>, QAI_ID |-> <<"q"," ","1">>, Lead |-> <<"A">>,
     Project_name |-> P1, Quality |-> Num(1000), Timeliness |-> Num(500),
     Documentation |-> Num(500), Communication |-> Num(500), Discipline |-> Num(375)],
    [Month |-> <<"J","A","N">>, QAI_ID |-> <<"Q","_","_","1">>, Lead |-> None,
     Project_name |-> P2, Quality |-> Unparsable, Timeliness |-> Num(250),
     Documentation |-> Num(0), Communication |-> Missing, Discipline |-> Num(125)],
    [Month |-> <<" ","J","a","n">>, QAI_ID |-> <<"Q","2">>, Lead |-> <<"B">>,
     Project_name |-> P2, Quality |-> Num(5000), Timeliness |-> Num(5000),
     Documentation |-> Num(5000), Communication |-> Num(5000), Discipline |-> Num(5000)],
    [Month |-> <<"f","e","b">>, QAI_ID |-> <<"Q","2">>, Lead |-> <<"B">>,
     Project_name |-> P3, Quality |-> Num(500), Timeliness |-> Num(500),
     Documentation |-> Num(250), Communication |-> Num(250), Discipline |-> Num(0)],
    [Month |-> <<"j","a","n">>, QAI_ID |-> None, Lead |-> <<"B">>,
     Project_name |-> P1, Quality |-> Num(1000), Timeliness |-> Num(0),
     Documentation |-> Num(0), Communication |-> Num(0), Discipline |-> Num(0)] }

\* The Lead tabs of the model: at least one row has a month and an ID.
LeadSheets ==
    {s \in SeqsUpTo(LeadRows, MaxLead) :
        \E i \in 1..Len(s) : s[i].Month # None /\ s[i].QAI_ID # None}

PdrRow(p, h, d) ==
    [Project_Batch |-> p, SUM_of_Effective_Work_Hour |-> h, PDR |-> d]
PdrCols == {"Project_Batch", "SUM_of_Effective_Work_Hour", "PDR"}

\* The Project_Hours tabs of the model: no record at all; distinct
\* projects; contributions that cancel; one project listed twice; an
\* unparsable hour.
PdrSheets == {
    EmptyRecords,
    [cols |-> PdrCols, rows |-> <<PdrRow(P1, Num(2), Num(1))>>],
    [cols |-> PdrCols, rows |-> <<PdrRow(P1, Num(2), Num(1)), PdrRow(P2, Num(2), Num(-1))>>],
    [cols |-> PdrCols, rows |-> <<PdrRow(P1, Num(2), Num(1)), PdrRow(P1, Num(3), Num(1)),
                                  PdrRow(P2, Num(1), Num(1))>>],
    [cols |-> PdrCols, rows |-> <<PdrRow(P1, Num(1), Num(2)), PdrRow(P2, Unparsable, Num(2))>>] }

Q1spaced == <<"Q", " ", "1">>
Q9 == <<"q", "9">>

\* The Attendance tabs of the model: no record at all; both score
\* columns; the alias columns ID and Score; no score column; no ID column.
AttSheets == {
    EmptyRecords,
    [cols |-> {"Month", "QAI_ID", "Attendance_Score", "Training"},
     rows |-> <<[Month |-> <<"j","a","n">>, QAI_ID |-> Q1spaced,
                 Attendance_Score |-> Num(375), Training |-> Num(1000)],
                [Month |-> <<"j","a","n">>, QAI_ID |-> Q9,
                 Attendance_Score |-> Unparsable, Training |-> Num(500)]>>],
    [cols |-> {"Month", "ID", "Score"},
     rows |-> <<[Month |-> <<"J","a","n">>, ID |-> Q1spaced, Score |-> Num(250)],
                [Month |-> <<"j","a","n">>, ID |-> Q1spaced, Score |-> Num(375)]>>],
    [cols |-> {"Month", "QAI_ID"},
     rows |-> <<[Month |-> <<"j","a","n">>, QAI_ID |-> Q1spaced],
                [Month |-> <<"f","e","b">>, QAI_ID |-> Q9]>>],
    [cols |-> {"Month", "Score"},
     rows |-> <<[Month |-> <<"j","a","n">>, Score |-> Num(375)]>>] }

\* What the report tab may hold before the first run: nothing, or an older
\* and longer report.
StaleRow == <<TextCell(<<"o","l","d">>)>>
StaleTab == [exists |-> TRUE,
             rows |-> <<StaleRow, StaleRow, StaleRow, StaleRow, StaleRow, StaleRow>>]
Tabs == {Absent, StaleTab}

\* ------------------------------------------------------------------------
\* The run of the script, section by section
\* ------------------------------------------------------------------------
NoFrames ==
    /\ lead_df = NoFrame /\ pdr_df = NoFrame /\ attendance_df = NoFrame
    /\ monthly_core = NoFrame /\ project_count = NoFrame
    /\ lead_with_hours = NoFrame /\ lead_contrib = NoFrame
    /\ attendance_agg = NoFrame /\ merged = NoFrame /\ final_report = NoFrame

IdIdle ==
    /\ rawId = None /\ curId = None /\ tabEdit = FALSE
    /\ idPhase = "off" /\ keyRaw = None /\ keyCur = None

Init ==
    /\ pc = "config"
    /\ env \in Envs
    /\ leadSheet \in LeadSheets
    /\ pdrSheet \in PdrSheets
    /\ attSheet \in AttSheets
    /\ tab \in Tabs
    /\ tab0 = tab
    /\ logs = {}
    /\ runs = 0
    /\ sourcesRead = FALSE
    /\ firstTab = Absent
    /\ NoFrames
    /\ IdIdle

\* A mutant of ConfigMissing that forgets SHEET_ID_REPORT.
ConfigMissing_NoReport(e) ==
    \/ e.SHEET_ID_LEAD \in {None, <<>>}
    \/ e.SHEET_ID_PDR \in {None, <<>>}

\* not SHEET_ID_LEAD or not SHEET_ID_PDR or not SHEET_ID_REPORT
ConfigMissing(e) ==
    \/ e.SHEET_ID_LEAD \in {None, <<>>}
    \/ e.SHEET_ID_PDR \in {None, <<>>}
    \/ e.SHEET_ID_REPORT \in {None, <<>>}

\* ==== 1) Connect to Google Sheets using Secrets ====
CheckConfig ==
    /\ pc = "config"
    /\ pc' = IF ConfigMissing(env) THEN "aborted" ELSE "load"
    /\ UNCHANGED <<world, tab, logs, runs, frames, sourcesRead, firstTab, idVars>>

\* ==== 2-4) Load the Lead, Project_Hours and Attendance sheets ====
LoadSources ==
    /\ pc = "load"
    /\ sourcesRead' = TRUE
    /\ lead_df' = leadSheet
    /\ pdr_df' = pdrSheet
    /\ attendance_df' = attSheet
    /\ pc' = "rename"
    /\ UNCHANGED <<world, tab, logs, runs, monthly_core, project_count,
                   lead_with_hours, lead_contrib, attendance_agg, merged,
                   final_report, firstTab, idVars>>

\* pd.DataFrame([]).columns.str.strip(): the columns of a frame built from
\* no record are an empty object Index (strip works) or a RangeIndex (the
\* .str accessor raises), as the installed pandas has it.
LoadRaises ==
    /\ pc = "load"
    /\ pdrSheet.cols = {} \/ attSheet.cols = {}
    /\ sourcesRead' = TRUE
    /\ pc' = "aborted"
    /\ UNCHANGED <<world, tab, logs, runs, frames, firstTab, idVars>>

\* ==== 5) Normalize/rename columns ====
Rename ==
    /\ pc = "rename"
    /\ pdr_df' = RenamePdr(pdr_df)
    /\ attendance_df' = AttendanceScores(RenameAttendance(attendance_df))
    /\ pc' = "coerce"
    /\ UNCHANGED <<world, tab, logs, runs, lead_df, monthly_core, project_count,
                   lead_with_hours, lead_contrib, attendance_agg, merged,
                   final_report, sourcesRead, firstTab, idVars>>

\* ==== 6) Ensure numeric columns in Lead + PDR ====
Coerce ==
    /\ pc = "coerce"
    /\ lead_df' = CoerceLead(lead_df)
    /\ IF CoercePdrRaises(pdr_df)
       THEN pc' = "aborted" /\ UNCHANGED pdr_df
       ELSE pc' = "clean" /\ pdr_df' = CoercePdr(pdr_df)
    /\ UNCHANGED <<world, tab, logs, runs, attendance_df, monthly_core,
                   project_count, lead_with_hours, lead_contrib, attendance_agg,
                   merged, final_report, sourcesRead, firstTab, idVars>>

\* ==== 7) Clean IDs and Months ====
Clean ==
    /\ pc = "clean"
    /\ lead_df' = CleanLead(lead_df)
    /\ IF CleanAttendanceRaises(attendance_df)
       THEN pc' = "aborted" /\ UNCHANGED attendance_df
       ELSE pc' = "core" /\ attendance_df' = CleanAttendance(attendance_df)
    /\ UNCHANGED <<world, tab, logs, runs, pdr_df, monthly_core, project_count,
                   lead_with_hours, lead_contrib, attendance_agg, merged,
                   final_report, sourcesRead, firstTab, idVars>>

\* ==== 8, 8b) Monthly KPI Averages, Project Count ====
Core ==
    /\ pc = "core"
    /\ monthly_core' = MonthlyCore(lead_df)
    /\ project_count' = ProjectCount(lead_df)
    /\ pc' = "hours"
    /\ UNCHANGED <<world, tab, logs, runs, lead_df, pdr_df, attendance_df,
                   lead_with_hours, lead_contrib, attendance_agg, merged,
                   final_report, sourcesRead, firstTab, idVars>>

\* ==== 9) lead_with_hours ====
Hours ==
    /\ pc = "hours"
    /\ lead_with_hours' = LeadWithHours(lead_df, pdr_df)
    /\ pc' = "contrib"
    /\ UNCHANGED <<world, tab, logs, runs, lead_df, pdr_df, attendance_df,
                   monthly_core, project_count, lead_contrib, attendance_agg,
                   merged, final_report, sourcesRead, firstTab, idVars>>

ContribStep(next, table) ==
    /\ lead_contrib' = table
    /\ pc' = next
    /\ UNCHANGED <<world, tab, logs, runs, lead_df, pdr_df, attendance_df,
                   monthly_core, project_count, lead_with_hours, attendance_agg,
                   merged, final_report, sourcesRead, firstTab, idVars>>

\* lead_contrib = lead_with_hours.groupby(...).agg(sum)
Contrib == pc = "contrib" /\ ContribStep("total", GroupContribution(lead_with_hours))

\* total_contrib and its merge into lead_contrib
Total == pc = "total" /\ ContribStep("pct", WithMonthTotal(lead_contrib))

\* lead_contrib["Contribution_%"]
Pct == pc = "pct" /\ ContribStep("rate", WithPercent(lead_contrib))

\* lead_contrib["Contribution_Rating"]
Rate == pc = "rate" /\ ContribStep("attagg", WithRating(lead_contrib))

\* attendance_agg
AttAgg ==
    /\ pc = "attagg"
    /\ IF AttendanceAggRaises(attendance_df)
       THEN pc' = "aborted" /\ UNCHANGED attendance_agg
       ELSE pc' = "merge" /\ attendance_agg' = AttendanceAgg(attendance_df)
    /\ UNCHANGED <<world, tab, logs, runs, lead_df, pdr_df, attendance_df,
                   monthly_core, project_count, lead_with_hours, lead_contrib,
                   merged, final_report, sourcesRead, firstTab, idVars>>

\* merged and its zero fill
Merge ==
    /\ pc = "merge"
    /\ merged' = Merged(monthly_core, lead_contrib, attendance_agg, project_count)
    /\ pc' = "score"
    /\ UNCHANGED <<world, tab, logs, runs, lead_df, pdr_df, attendance_df,
                   monthly_core, project_count, lead_with_hours, lead_contrib,
                   attendance_agg, final_report, sourcesRead, firstTab, idVars>>

\* ==== 14) Weighted Scoring ====
Score ==
    /\ pc = "score"
    /\ merged' = Scored(merged)
    /\ pc' = "report"
    /\ UNCHANGED <<world, tab, logs, runs, lead_df, pdr_df, attendance_df,
                   monthly_core, project_count, lead_with_hours, lead_contrib,
                   attendance_agg, final_report, sourcesRead, firstTab, idVars>>

\* ==== 15) Final Report ====
Report ==
    /\ pc = "report"
    /\ final_report' = FinalReport(merged)
    /\ pc' = "log"
    /\ UNCHANGED <<world, tab, logs, runs, lead_df, pdr_df, attendance_df,
                   monthly_core, project_count, lead_with_hours, lead_contrib,
                   attendance_agg, merged, sourcesRead, firstTab, idVars>>

\* ==== 15b) Export Logs to Excel ====
ExportLogs ==
    /\ pc = "log"
    /\ logs' = logs \cup {runs}
    /\ pc' = "upload"
    /\ UNCHANGED <<world, tab, runs, frames, sourcesRead, firstTab, idVars>>

\* ==== 16) Upload to Google Sheets ====
Upload ==
    /\ pc = "upload"
    /\ tab' = Uploaded(tab, final_report)
    /\ firstTab' = IF firstTab.exists THEN firstTab ELSE tab'
    /\ pc' = "done"
    /\ UNCHANGED <<world, logs, runs, frames, sourcesRead, idVars>>

\* The script is started again, on the same sheets and environment.
Rerun ==
    /\ pc \in {"done", "aborted"}
    /\ runs + 1 < MaxRuns
    /\ runs' = runs + 1
    /\ pc' = "config"
    /\ lead_df' = NoFrame /\ pdr_df' = NoFrame /\ attendance_df' = NoFrame
    /\ monthly_core' = NoFrame /\ project_count' = NoFrame
    /\ lead_with_hours' = NoFrame /\ lead_contrib' = NoFrame
    /\ attendance_agg' = NoFrame /\ merged' = NoFrame /\ final_report' = NoFrame
    /\ UNCHANGED <<world, tab, logs, sourcesRead, firstTab, idVars>>

Next ==
    \/ CheckConfig
    \/ LoadSources
    \/ LoadRaises
    \/ Rename
    \/ Coerce
    \/ Clean
    \/ Core
    \/ Hours
    \/ Contrib
    \/ Total
    \/ Pct
    \/ Rate
    \/ AttAgg
    \/ Merge
    \/ Score
    \/ Report
    \/ ExportLogs
    \/ Upload
    \/ Rerun

Spec == Init /\ [][Next]_vars

\* ------------------------------------------------------------------------
\* SpecId: clean_qai_id on two spellings of one raw ID, the second made
\* from the first by elementary edits of case, whitespace and underscores.
\* ------------------------------------------------------------------------
IdAlphabet == {"q", "Q", "1", " ", "\t", "_"}
RawIds == SeqsUpTo(IdAlphabet, BaseIdLen)

InsertAt(s, i, c) == SubSeq(s, 1, i) \o <<c>> \o SubSeq(s, i + 1, Len(s))
RemoveAt(s, i) == SubSeq(s, 1, i - 1) \o SubSeq(s, i + 1, Len(s))

\* Position i lies strictly between two characters that strip() keeps.
Internal(s, i) ==
    /\ \E j \in 1..(i - 1) : s[j] \notin Whitespace
    /\ \E j \in (i + 1)..Len(s) : s[j] \notin Whitespace

PipeIdle ==
    /\ pc = "off"
    /\ env = [SHEET_ID_LEAD |-> SheetId, SHEET_ID_PDR |-> SheetId,
              SHEET_ID_REPORT |-> SheetId]
    /\ leadSheet = <<>>
    /\ pdrSheet = EmptyRecords
    /\ attSheet = EmptyRecords
    /\ tab = Absent
    /\ tab0 = Absent
    /\ logs = {}
    /\ runs = 0
    /\ sourcesRead = FALSE
    /\ firstTab = Absent
    /\ NoFrames

IdInit ==
    /\ rawId \in RawIds
    /\ curId = rawId
    /\ tabEdit = FALSE
    /\ idPhase = "edit"
    /\ keyRaw = None
    /\ keyCur = None
    /\ PipeIdle

IdEdit(new, byTab) ==
    /\ idPhase = "edit"
    /\ Len(new) <= MaxIdLen
    /\ curId' = new
    /\ tabEdit' = (tabEdit \/ byTab)
    /\ UNCHANGED <<rawId, idPhase, keyRaw, keyCur, pipeVars>>

\* Change the case of one letter.
ToggleCase ==
    \E i \in 1..Len(curId) :
        /\ IsLower(curId[i]) \/ IsUpper(curId[i])
        /\ IdEdit([curId EXCEPT ![i] = IF IsLower(@) THEN UpperChar(@)
                                       ELSE LowerChar(@)], FALSE)

\* Add one leading or trailing whitespace character.
PadLeft == \E c \in Whitespace : IdEdit(<<c>> \o curId, FALSE)
PadRight == \E c \in Whitespace : IdEdit(curId \o <<c>>, FALSE)

\* Remove one leading or trailing whitespace character.
TrimLeft ==
    /\ curId # <<>>
    /\ Head(curId) \in Whitespace
    /\ IdEdit(Tail(curId), FALSE)

TrimRight ==
    /\ curId # <<>>
    /\ curId[Len(curId)] \in Whitespace
    /\ IdEdit(SubSeq(curId, 1, Len(curId) - 1), FALSE)

\* Lengthen or shorten a run of spaces or a run of underscores.
StretchRun ==
    \E i \in 1..Len(curId) :
        /\ curId[i] \in {" ", "_"}
        /\ IdEdit(InsertAt(curId, i, curId[i]), FALSE)

ShrinkRun ==
    \E i \in 1..(Len(curId) - 1) :
        /\ curId[i] \in {" ", "_"}
        /\ curId[i + 1] = curId[i]
        /\ IdEdit(RemoveAt(curId, i), FALSE)

\* Write an internal separator as a space instead of an underscore, or back.
SwapSeparator ==
    \E i \in 1..Len(curId) :
        /\ curId[i] \in {" ", "_"}
        /\ Internal(curId, i)
        /\ IdEdit([curId EXCEPT ![i] = IF @ = " " THEN "_" ELSE " "], FALSE)

\* Lengthen an internal whitespace run by a tab.
TabIntoRun ==
    \E i \in 1..Len(curId) :
        /\ curId[i] \in Whitespace
        /\ Internal(curId, i)
        /\ IdEdit(InsertAt(curId, i, "\t"), TRUE)

\* Write one space of an internal whitespace run as a tab.
TabForSpace ==
    \E i \in 1..Len(curId) :
        /\ curId[i] = " "
        /\ Internal(curId, i)
        /\ IdEdit([curId EXCEPT ![i] = "\t"], TRUE)

\* lead_df["QAI_ID"].apply(clean_qai_id), on both spellings
CleanIds ==
    /\ idPhase = "edit"
    /\ idPhase' = "cleaned"
    /\ keyRaw' = clean_qai_id(rawId)
    /\ keyCur' = clean_qai_id(curId)
    /\ UNCHANGED <<rawId, curId, tabEdit, pipeVars>>

IdNext ==
    \/ ToggleCase
    \/ PadLeft
    \/ PadRight
    \/ TrimLeft
    \/ TrimRight
    \/ StretchRun
    \/ ShrinkRun
    \/ SwapSeparator
    \/ TabIntoRun
    \/ TabForSpace
    \/ CleanIds

SpecId == IdInit /\ [][IdNext]_vars

Sections == <<"config", "load", "rename", "coerce", "clean", "core", "hours",
              "contrib", "total", "pct", "rate", "attagg", "merge", "score",
              "report", "log", "upload", "done">>
SectionNo(p) == CHOOSE i \in 1..Len(Sections) : Sections[i] = p

\* Section p has run in the current run, which has not aborted since.
Ran(p) == pc \in Range(Sections) /\ SectionNo(pc) > SectionNo(p)

KeyOf(r) == <<r.Month, r.QAI_ID>>
ReportKey(row) == <<row[1].txt, row[2].txt>>
EnvGiven(v) == v # None /\ v # <<>>
EnvComplete ==
    EnvGiven(env.SHEET_ID_LEAD) /\ EnvGiven(env.SHEET_ID_PDR)
        /\ EnvGiven(env.SHEET_ID_REPORT)

\* C1: once the report is built, its (Month, QAI_ID) keys are exactly the
\* keys of monthly_core, each exactly once, and so are those of merged; a
\* key that only the Attendance sheet has is in neither.
C1_ReportKeysAreCoreKeys ==
    Ran("report") =>
        /\ \A i \in 1..Len(monthly_core) :
              /\ Cardinality({j \in 1..Len(final_report) :
                    ReportKey(final_report[j]) = KeyOf(monthly_core[i])}) = 1
              /\ Cardinality({j \in 1..Len(merged) :
                    KeyOf(merged[j]) = KeyOf(monthly_core[i])}) = 1
        /\ \A j \in 1..Len(final_report) :
              /\ \E i \in 1..Len(monthly_core) :
                    ReportKey(final_report[j]) = KeyOf(monthly_core[i])
              /\ \E i \in 1..Len(lead_df) :
                    ReportKey(final_report[j]) = KeyOf(lead_df[i])
        /\ Len(merged) = Len(final_report)

\* C1 witness: a completed run with two keys in the report, a key that
\* only the Attendance sheet has, and a project listed twice.
C1_Witness ==
    /\ pc = "done"
    /\ Len(final_report) = 2
    /\ \E a \in 1..Len(attendance_agg) :
          \A i \in 1..Len(monthly_core) :
              KeyOf(attendance_agg[a]) # KeyOf(monthly_core[i])
    /\ Len(lead_with_hours) > Len(lead_df)

\* C2: in lead_contrib, and in merged, a month whose total is 0 has
\* Contribution_% 0 for everybody, and no Contribution_% is NaN or infinite.
C2_ZeroTotalGivesZeroPercent ==
    /\ Ran("pct") =>
          \A i \in 1..Len(lead_contrib) :
              /\ IsFinite(lead_contrib[i].Contribution_pct)
              /\ lead_contrib[i].Total_Month_Contribution = 0
                    => lead_contrib[i].Contribution_pct = Num(0)
    /\ Ran("merge") =>
          \A i \in 1..Len(merged) : IsFinite(merged[i].Contribution_pct)

\* C7: with an Attendance sheet that has no record, or no score column,
\* and nothing else wrong, the run does not abort, and when it is done
\* every key of monthly_core is in the report and Attendance and Training
\* are 0 in every merged row.
C7_EmptyAttendanceCompletes ==
    ( /\ EnvComplete
      /\ pdrSheet.cols # {}
      /\ attSheet.cols = {} \/ attSheet.cols = {"Month", "QAI_ID"} )
    => /\ pc # "aborted"
       /\ pc = "done" =>
            /\ \A i \in 1..Len(monthly_core) :
                  \E j \in 1..Len(final_report) :
                      ReportKey(final_report[j]) = KeyOf(monthly_core[i])
            /\ \A i \in 1..Len(merged) :
                  merged[i].Attendance = 0 /\ merged[i].Training = 0

\* C8: after every completed run the report tab holds the header and the
\* rows of final_report and nothing else, whatever it held before, and is
\* the tab the first completed run left.
C8_TabIsTheReport ==
    pc = "done" =>
        /\ tab = [exists |-> TRUE, rows |-> <<final_report_columns>> \o final_report]
        /\ tab = firstTab

\* C8 witness: a second run completed over a tab that held an older,
\* longer report before the first.
C8_Witness ==
    /\ pc = "done"
    /\ runs = 1
    /\ tab0 = StaleTab
    /\ Len(final_report) = 2
    /\ Len(tab.rows) = 3

\* C9: with SHEET_ID_LEAD, SHEET_ID_PDR or SHEET_ID_REPORT unset or empty
\* the run gets no further than its abort: no sheet is read, no frame is
\* computed, the report tab is as it was and no log file is written.
C9_MissingIdStopsBeforeAnything ==
    ~EnvComplete =>
        /\ pc \in {"config", "aborted"}
        /\ ~sourcesRead
        /\ NoFrames
        /\ tab = tab0
        /\ logs = {}

\* C9 witness: a run aborted because only SHEET_ID_REPORT is empty.
C9_Witness ==
    /\ pc = "aborted"
    /\ env.SHEET_ID_REPORT = <<>>
    /\ EnvGiven(env.SHEET_ID_LEAD)
    /\ EnvGiven(env.SHEET_ID_PDR)
    /\ tab0 = StaleTab

\* The Project_Hours rows named as the project of lead row r, and what
\* they give r when each is taken once.
HoursOf(r) == SelectSeq(pdr_df.rows, LAMBDA p : p.Project_name = r.Project_name)
OnceContribution(r) ==
    IF HoursOf(r) = <<>> THEN 0 ELSE HoursOf(r)[1].PDR * HoursOf(r)[1].Project_Hour
LeadPart(r) == [f \in DOMAIN r \ {"PDR", "Project_Hour", "Weighted_Contribution"} |-> r[f]]
DistinctProjects ==
    \A i, j \in 1..Len(pdr_df.rows) :
        pdr_df.rows[i].Project_name = pdr_df.rows[j].Project_name => i = j

OneRowPerLead ==
    /\ Len(lead_with_hours) = Len(lead_df)
    /\ \A i \in 1..Len(lead_df) :
          /\ LeadPart(lead_with_hours[i]) = lead_df[i]
          /\ HoursOf(lead_df[i]) = <<>> =>
                lead_with_hours[i].PDR = 0 /\ lead_with_hours[i].Project_Hour = 0

ContributionTakenOnce ==
    \A k \in 1..Len(lead_contrib) :
        lead_contrib[k].Lead_Contribution =
            SumSeq([i \in 1..Len(GroupRows(lead_df, KeyOf(lead_contrib[k]))) |->
                      OnceContribution(GroupRows(lead_df, KeyOf(lead_contrib[k]))[i])])

\* C10 (as stated): whatever Project_Hours holds, lead_with_hours has
\* exactly one row per lead row, with PDR 0 and Project Hour 0 for a
\* project that is not listed, and Lead_Contribution sums PDR x Project
\* Hour once per lead row.
C10_AlwaysOneRowPerLead ==
    /\ Ran("hours") => OneRowPerLead
    /\ Ran("contrib") => ContributionTakenOnce

\* C10 (amended): that holds when no project name is listed twice in
\* Project_Hours; in general lead_with_hours has, for each lead row, one
\* row per Project_Hours row of that project (one row of zeros when there
\* is none), and Lead_Contribution sums PDR x Project Hour over them.
C10_OneRowPerMatch ==
    /\ Ran("hours") =>
          /\ DistinctProjects => OneRowPerLead
          /\ lead_with_hours =
                Flatten([i \in 1..Len(lead_df) |->
                    IF HoursOf(lead_df[i]) = <<>>
                    THEN <<lead_df[i] @@ [PDR |-> 0, Project_Hour |-> 0,
                                          Weighted_Contribution |-> 0]>>
                    ELSE [j \in 1..Len(HoursOf(lead_df[i])) |->
                            lead_df[i] @@
                                [PDR |-> HoursOf(lead_df[i])[j].PDR,
                                 Project_Hour |-> HoursOf(lead_df[i])[j].Project_Hour,
                                 Weighted_Contribution |->
                                    HoursOf(lead_df[i])[j].PDR
                                        * HoursOf(lead_df[i])[j].Project_Hour]]])
    /\ Ran("contrib") =>
          /\ DistinctProjects => ContributionTakenOnce
          /\ \A k \in 1..Len(lead_contrib) :
                lead_contrib[k].Lead_Contribution =
                    SumSeq(Col(GroupRows(lead_with_hours, KeyOf(lead_contrib[k])),
                               "Weighted_Contribution"))

\* C10 witness: a completed run in which one person has two lead rows in
\* one month, one on a listed project and one on a project Project_Hours
\* does not list, no project being listed twice.
C10_Witness ==
    /\ pc = "done"
    /\ DistinctProjects
    /\ Len(lead_df) = 2
    /\ Len(lead_contrib) = 1
    /\ lead_contrib[1].Lead_Contribution # 0
    /\ \E i \in 1..2 : HoursOf(lead_df[i]) = <<>>
    /\ \E i \in 1..2 : HoursOf(lead_df[i]) # <<>>

\* ------------------------------------------------------------------------
\* Specifications of single sections: the run starts at the section, on a
\* frame drawn from a bounded set, with nothing else of the run in play.
\* ------------------------------------------------------------------------
January == <<"J","a","n","u","a","r","y">>
February == <<"F","e","b","r","u","a","r","y">>

WorldIdle ==
    /\ env = [SHEET_ID_LEAD |-> SheetId, SHEET_ID_PDR |-> SheetId,
              SHEET_ID_REPORT |-> SheetId]
    /\ leadSheet = <<>>
    /\ pdrSheet = EmptyRecords
    /\ attSheet = EmptyRecords
    /\ tab = Absent
    /\ tab0 = Absent
    /\ logs = {}
    /\ runs = 0
    /\ sourcesRead = TRUE
    /\ firstTab = Absent

\* --- SpecContrib: sections 10-13 on a lead_with_hours table -------------
HoursRows ==
    {[Month |-> m, QAI_ID |-> q, PDR |-> d, Project_Hour |-> h,
      Weighted_Contribution |-> d * h] :
        m \in {January, February}, q \in {<<"A">>, <<"B">>, <<"C">>},
        d \in {1, -1}, h \in {1, 3}}

ContribInit ==
    /\ pc = "contrib"
    /\ lead_with_hours \in SeqsUpTo(HoursRows, MaxHoursRows) \ {<<>>}
    /\ lead_df = NoFrame /\ pdr_df = NoFrame /\ attendance_df = NoFrame
    /\ monthly_core = NoFrame /\ project_count = NoFrame
    /\ lead_contrib = NoFrame
    /\ attendance_agg = NoFrame /\ merged = NoFrame /\ final_report = NoFrame
    /\ WorldIdle
    /\ IdIdle

ContribNext ==
    \/ Contrib
    \/ Total
    \/ Pct
    \/ Rate

SpecContrib == ContribInit /\ [][ContribNext]_vars

MonthRows(m) == SelectSeq(lead_contrib, LAMBDA r : r.Month = m)

\* C3: in every month whose total is not 0, each Contribution_% is a
\* number and the Contribution_% of the month's people sum to 100 within
\* 0.005 per person (in hundredths: twice the distance from 10000 is at
\* most the number of people).
C3_PercentsSumTo100 ==
    Ran("pct") =>
        \A i \in 1..Len(lead_contrib) :
            lead_contrib[i].Total_Month_Contribution # 0 =>
                LET rows == MonthRows(lead_contrib[i].Month)
                IN  /\ \A j \in 1..Len(rows) : IsFinite(rows[j].Contribution_pct)
                    /\ 2 * Abs(SumSeq([j \in 1..Len(rows) |->
                                          rows[j].Contribution_pct.v]) - 10000)
                          <= Len(rows)

\* C3 witness: a month of three people, with contributions of both signs,
\* whose rounded percentages do not sum to exactly 100.
C3_Witness ==
    /\ Ran("pct")
    /\ Len(MonthRows(January)) = 3
    /\ lead_contrib[1].Total_Month_Contribution # 0
    /\ \E j \in 1..3 : MonthRows(January)[j].Lead_Contribution < 0
    /\ SumSeq([j \in 1..3 |-> MonthRows(January)[j].Contribution_pct.v]) # 10000

\* --- SpecRating: the rating step on a month of two people ---------------
RatingTables ==
    {<<[Month |-> January, QAI_ID |-> <<"A">>, Lead_Contribution |-> v,
        Total_Month_Contribution |-> 10000, Contribution_pct |-> Num(v)],
       [Month |-> January, QAI_ID |-> <<"B">>, Lead_Contribution |-> 10000 - v,
        Total_Month_Contribution |-> 10000, Contribution_pct |-> Num(10000 - v)]>> :
        v \in 0..MaxPct}

RatingInit ==
    /\ pc = "rate"
    /\ lead_contrib \in RatingTables
    /\ lead_df = NoFrame /\ pdr_df = NoFrame /\ attendance_df = NoFrame
    /\ monthly_core = NoFrame /\ project_count = NoFrame
    /\ lead_with_hours = NoFrame
    /\ attendance_agg = NoFrame /\ merged = NoFrame /\ final_report = NoFrame
    /\ WorldIdle
    /\ IdIdle

RatingNext == Rate

SpecRating == RatingInit /\ [][RatingNext]_vars

RatingAt(v, rating) ==
    Ran("rate") =>
        \A i \in 1..Len(lead_contrib) :
            lead_contrib[i].Contribution_pct = Num(v)
                => lead_contrib[i].Contribution_Rating = rating

\* C5 (as stated): 19.99 gives rating 2, 20.00 gives 5, 15.99 gives 3 and
\* 16.00 gives 4.
C5_Boundaries_1999Is2 ==
    RatingAt(1999, 2) /\ RatingAt(2000, 5) /\ RatingAt(1599, 3) /\ RatingAt(1600, 4)

\* C5 (amended): 19.99 gives rating 4, 20.00 gives 5, 15.99 gives 3 and
\* 16.00 gives 4.
C5_Boundaries_1999Is4 ==
    RatingAt(1999, 4) /\ RatingAt(2000, 5) /\ RatingAt(1599, 3) /\ RatingAt(1600, 4)

\* C5 witness: a Contribution_% of 19.99 has been rated 4.
C5_Witness ==
    /\ Ran("rate")
    /\ lead_contrib[1].Contribution_pct = Num(1999)
    /\ lead_contrib[1].Contribution_Rating = 4

\* --- SpecScore: the scoring section on one merged row -------------------
ScoreRows ==
    [Month : {January}, QAI_ID : {<<"A">>},
     Quality : {0, 1000, 5000}, Timeliness : {500, 5000},
     Documentation : {500, 5000}, Communication : {500, 5000},
     Discipline : {0, 375, 5000}, Contribution_Rating : 1..5,
     Attendance : {375, 5000}, Training : {1000, 5000}]

ScoreInit ==
    /\ pc = "score"
    /\ merged \in {<<r>> : r \in ScoreRows}
    /\ lead_df = NoFrame /\ pdr_df = NoFrame /\ attendance_df = NoFrame
    /\ monthly_core = NoFrame /\ project_count = NoFrame
    /\ lead_with_hours = NoFrame /\ lead_contrib = NoFrame
    /\ attendance_agg = NoFrame /\ final_report = NoFrame
    /\ WorldIdle
    /\ IdIdle

ScoreNext == Score

SpecScore == ScoreInit /\ [][ScoreNext]_vars

\* The row of the claim: the documented maxima taken as source metrics.
IsDocumentedMaxRow(r) ==
    /\ r.Quality = 1000 /\ r.Timeliness = 500 /\ r.Documentation = 500
    /\ r.Communication = 500 /\ r.Discipline = 375 /\ r.Contribution_Rating = 5
    /\ r.Attendance = 375 /\ r.Training = 1000

\* Every source metric at 5.
IsAllFiveRow(r) ==
    /\ r.Quality = 5000 /\ r.Timeliness = 5000 /\ r.Documentation = 5000
    /\ r.Communication = 5000 /\ r.Discipline = 5000 /\ r.Contribution_Rating = 5
    /\ r.Attendance = 5000 /\ r.Training = 5000

\* C6 (as stated): the row with Quality 1.0, Timeliness 0.5, Documentation
\* 0.5, Communication 0.5, Discipline 0.375, Contribution_Rating 5,
\* Attendance 0.375 and Training 1.0 has Final KPI Score 5.00.
C6_DocumentedMaxScores500 ==
    Ran("score") =>
        \A i \in 1..Len(merged) :
            IsDocumentedMaxRow(merged[i]) => merged[i].Final_KPI_Score = 500

\* C6 (amended): that row has Final KPI Score 1.36 (1.35625 rounded to 2
\* decimals), the sum of its eight sub-scores; the score is 5.00 for the
\* row whose eight source metrics are all 5.
C6_DocumentedMaxScores136 ==
    Ran("score") =>
        \A i \in 1..Len(merged) :
            /\ IsDocumentedMaxRow(merged[i]) =>
                  /\ merged[i].Final_KPI_Score = 136
                  /\ merged[i].Score_Quality + merged[i].Score_Timeliness
                        + merged[i].Score_Documentation + merged[i].Score_Communication
                        + merged[i].Score_Discipline + merged[i].Score_Contribution
                        + merged[i].Score_Attendance + merged[i].Score_Training
                        = 1356250
            /\ IsAllFiveRow(merged[i]) => merged[i].Final_KPI_Score = 500

\* C6 witness: the row of the claim has been scored 1.36.
C6_Witness ==
    /\ Ran("score")
    /\ IsDocumentedMaxRow(merged[1])
    /\ merged[1].Final_KPI_Score = 136

====
